---- MODULE Spec2Model ----
(***************************************************************************)
(* A model of the GEE-Oil-Estimations scripts:                             *)
(*   tank_polygons.py / tank_polygons_by_region.py  (polygon acquisition)  *)
(*   merge_tanker_jsons.py                          (merge + dedup)        *)
(*   upload_to_gee.py                               (asset upload)         *)
(*   working_weekly_data.py                         (asset load, windows)  *)
(* Each script is a sequential program; `script` says which one runs and   *)
(* `pc` where it is.  Remote services (Overpass mirrors, Earth Engine,     *)
(* the file system) answer nondeterministically from small sets.           *)
(***************************************************************************)
EXTENDS Integers, Sequences, FiniteSets, TLC

VARIABLES
    script,              \* which program runs
    pc,                  \* its position
    \* ---- tank_polygons.py / tank_polygons_by_region.py
    loc,                 \* index into LOCATIONS of the region of the for loop
    calls,               \* history: fetch_tanks calls and returns, in order
    max_retries,         \* fetch_tanks parameter
    attempt,             \* fetch_tanks loop variable
    server,              \* fetch_tanks local
    exc,                 \* the exception class being handled
    data,                \* fetch_tanks local: the decoded response
    features,            \* fetch_tanks return value / loop variable
    log,                 \* history of one fetch_tanks call: requests, sleeps, failures
    all_features,        \* tank_polygons.py (and merge_tanker_jsons.py) global
    total_tanks,         \* tank_polygons_by_region.py global
    successful_regions,  \* tank_polygons_by_region.py global
    saved,               \* region files written, in order
    \* ---- merge_tanker_jsons.py
    data1,               \* features of data/oil_tanks_1.geojson
    data2,               \* features of data/oil_tanks_2.geojson
    pos,                 \* how many features the for loop has read
    seen_ids,
    unique_features,
    merged,              \* the collection written to data/oil_tanks.geojson
    report,              \* the counts printed at the end
    \* ---- working_weekly_data.py
    config,              \* START_DATE, END_DATE, COMPOSITE_INTERVAL_DAYS as configured
    catalog,             \* the days for which the image catalogue holds a qualifying scene
    tank_metrics,        \* run_extraction: the collection handed to the export
    start,               \* generate_date_list parameters
    end,
    interval_days,
    current,             \* generate_date_list locals
    dates,
    asset_i,             \* load_storage_polygons: assets tried so far
    resolved,            \* history: what the backend answered for each asset tried
    valid_collections,
    missing_assets,
    storage_polygons,
    composites,
    task,                \* the export task
    \* ---- upload_to_gee.py
    geojson_files,
    file_i,              \* files handled so far
    successful,
    failed,
    \* ---- working_weekly_data.py and upload_to_gee.py
    success,             \* the value of run_extraction() / upload_all_regions()
    exit_status

acqVars == <<loc, calls, max_retries, attempt, server, exc, data, features, log,
             all_features, total_tanks, successful_regions, saved>>

mergeVars == <<data1, data2, pos, seen_ids, unique_features, merged, report>>

statsVars == <<config, catalog, tank_metrics, start, end, interval_days, current, dates, asset_i, resolved,
               valid_collections, missing_assets, storage_polygons, composites, task>>

uploadVars == <<geojson_files, file_i, successful, failed>>

exitVars == <<success, exit_status>>

eeVars == <<statsVars, uploadVars, exitVars>>

vars == <<script, pc, acqVars, mergeVars, eeVars>>

(***************************************************************************)
(* Bounds of the model.                                                    *)
(***************************************************************************)
MaxRetries == 4          \* fetch_tanks is called directly with max_retries in 0..MaxRetries
MaxFeatures == 2         \* a file merge_tanker_jsons.py reads holds at most this many features
MaxShift == 2            \* start and end dates lie up to this many days off the configured ones
MaxIntervalDays == 8     \* and with interval_days in 1..MaxIntervalDays
MaxCount == 2            \* a published asset holds at most this many features

None == "None"           \* Python's None

\* a value that may be None where the values are not strings: <<>> is None and
\* <<v>> is the value v
Nothing == <<>>

Some(v) == <<v>>

(***************************************************************************)
(* Configuration of the acquisition scripts.                               *)
(***************************************************************************)
LOCATIONS ==
    << [name |-> "Fujairah, UAE",              bbox |-> "25.15,56.30,25.25,56.40"],
       [name |-> "Rotterdam, Netherlands",     bbox |-> "51.85,3.90,51.99,4.50"],
       [name |-> "Jurong Island, Singapore",   bbox |-> "1.22,103.65,1.30,103.75"],
       [name |-> "Houston Ship Channel, USA",  bbox |-> "29.70,-95.30,29.80,-94.90"],
       [name |-> "Saldanha Bay, South Africa", bbox |-> "-33.05,17.85,-32.95,18.05"],
       [name |-> "Zhoushan, China",            bbox |-> "29.85,121.90,30.10,122.30"],
       [name |-> "Cushing, OK",                bbox |-> "35.95,-97.45,36.15,-96.95"] >>

OVERPASS_SERVERS ==
    << "https://overpass-api.de/api/interpreter",
       "https://overpass.kumi.systems/api/interpreter",
       "https://overpass.openstreetmap.ru/api/interpreter" >>

DefaultMaxRetries == 3   \* def fetch_tanks(location_name, bbox, max_retries=3)
BackoffUnit == 5         \* wait_time = 5 * attempt
SuccessDelay == 2        \* time.sleep(2)

\* build_query(bbox): the query text is the template with the bbox put in.
build_query(bbox) == <<"storage_tank", bbox>>

(***************************************************************************)
(* Geometry: shapely's Polygon(coords), .is_valid and .area on integer     *)
(* coordinates.                                                            *)
(***************************************************************************)
Cross(p, q, r) == (q[1] - p[1]) * (r[2] - p[2]) - (q[2] - p[2]) * (r[1] - p[1])

Sign(x) == IF x > 0 THEN 1 ELSE IF x < 0 THEN -1 ELSE 0

Between(a, b, x) == (a <= x /\ x <= b) \/ (b <= x /\ x <= a)

\* r lies on the closed segment pq
OnSegment(p, q, r) ==
    Cross(p, q, r) = 0 /\ Between(p[1], q[1], r[1]) /\ Between(p[2], q[2], r[2])

\* the closed segments ab and cd share a point
SegmentsMeet(a, b, c, d) ==
    \/ /\ Sign(Cross(a, b, c)) * Sign(Cross(a, b, d)) < 0
       /\ Sign(Cross(c, d, a)) * Sign(Cross(c, d, b)) < 0
    \/ OnSegment(a, b, c) \/ OnSegment(a, b, d)
    \/ OnSegment(c, d, a) \/ OnSegment(c, d, b)

RECURSIVE ShoelaceSum(_, _)
ShoelaceSum(ring, i) ==
    IF i >= Len(ring) THEN 0
    ELSE ring[i][1] * ring[i + 1][2] - ring[i + 1][1] * ring[i][2]
         + ShoelaceSum(ring, i + 1)

\* twice poly.area
Area2(ring) ==
    LET s == ShoelaceSum(ring, 1) IN IF s < 0 THEN -s ELSE s

\* poly.is_valid for a ring without holes: consecutive edges meet only in
\* their common vertex and no other two edges meet.
IsValidRing(ring) ==
    LET n == Len(ring) - 1   \* number of edges
    IN  \A i, j \in 1..n :
            i < j =>
                LET a == ring[i]
                    b == ring[i + 1]
                    c == ring[j]
                    d == ring[j + 1]
                IN  IF j = i + 1
                    THEN ~(OnSegment(a, b, d) \/ OnSegment(c, d, a))
                    ELSE IF i = 1 /\ j = n
                    THEN ~(OnSegment(a, b, c) \/ OnSegment(c, d, b))
                    ELSE ~SegmentsMeet(a, b, c, d)

(***************************************************************************)
(* fetch_tanks, lines 81-121: the polygon assembly of one response.        *)
(***************************************************************************)
Has(d, k) == k \in DOMAIN d

\* nodes = {el['id']: (el['lon'], el['lat']) for el in elements if el['type'] == 'node'}
\* raises KeyError when an element has no 'type', or a node no 'id', 'lon' or 'lat'.
NodesRaises(elements) ==
    \E i \in 1..Len(elements) :
        \/ ~Has(elements[i], "type")
        \/ /\ elements[i].type = "node"
           /\ ~(Has(elements[i], "id") /\ Has(elements[i], "lon") /\ Has(elements[i], "lat"))

\* the dict: a later node with the same id replaces an earlier one
NodeIds(elements) ==
    { elements[i].id : i \in { k \in 1..Len(elements) : elements[k].type = "node" } }

NodeAt(elements, id) ==
    LET last == CHOOSE i \in 1..Len(elements) :
                    /\ elements[i].type = "node" /\ elements[i].id = id
                    /\ \A k \in (i + 1)..Len(elements) :
                           ~(elements[k].type = "node" /\ elements[k].id = id)
    IN  <<elements[last].lon, elements[last].lat>>

RECURSIVE ResolveCoords(_, _, _)
\* coords = [nodes[n] for n in el['nodes'] if n in nodes]
ResolveCoords(elements, refs, i) ==
    IF i > Len(refs) THEN <<>>
    ELSE (IF refs[i] \in NodeIds(elements)
          THEN <<NodeAt(elements, refs[i])>> ELSE <<>>)
         \o ResolveCoords(elements, refs, i + 1)

\* if coords[0] != coords[-1]: coords.append(coords[0])
CloseRing(coords) ==
    IF coords[1] /= coords[Len(coords)] THEN Append(coords, coords[1]) ELSE coords

\* if 'tags' in el: if k in el['tags']: properties[k] = el['tags'][k]
WithTag(props, el, k) ==
    IF Has(el, "tags") /\ Has(el.tags, k) THEN (k :> el.tags[k]) @@ props ELSE props

\* properties = {"tank_id": el['id'], "location": location_name} plus the tags kept
Properties(el, location_name) ==
    WithTag(WithTag([tank_id |-> el.id, location |-> location_name], el, "content"),
            el, "substance")

\* the features one element contributes: a way with >= 3 resolved coordinates whose
\* closed ring is a valid polygon of positive area; anything raised inside the
\* inner try (a ring of fewer than 4 coordinates, a way without 'id') skips the way
WayFeatures(elements, el, location_name) ==
    IF ~(el.type = "way" /\ Has(el, "nodes")) THEN <<>>
    ELSE LET coords == ResolveCoords(elements, el.nodes, 1)
         IN  IF Len(coords) < 3 THEN <<>>
             ELSE LET ring == CloseRing(coords)
                  IN  IF Len(ring) < 4 THEN <<>>
                      ELSE IF ~(IsValidRing(ring) /\ Area2(ring) > 0) THEN <<>>
                      ELSE IF ~Has(el, "id") THEN <<>>
                      ELSE << [geometry   |-> ring,
                               properties |-> Properties(el, location_name)] >>

RECURSIVE AssembleFrom(_, _, _)
AssembleFrom(elements, i, location_name) ==
    IF i > Len(elements) THEN <<>>
    ELSE WayFeatures(elements, elements[i], location_name)
         \o AssembleFrom(elements, i + 1, location_name)

\* a key whose JSON value is null: the element lists it in its field `nulls`
IsNull(el, k) == Has(el, "nulls") /\ k \in el.nulls

\* `for n in el['nodes']` outside the inner try: a way whose 'nodes' is null
\* raises TypeError
WayRaises(el) == Has(el, "type") /\ el.type = "way" /\ IsNull(el, "nodes")

\* the first element at which the loop over the elements raises, 0 if none does
FirstRaising(elements) ==
    IF \E i \in 1..Len(elements) : WayRaises(elements[i])
    THEN CHOOSE i \in 1..Len(elements) :
             /\ WayRaises(elements[i])
             /\ \A k \in 1..(i - 1) : ~WayRaises(elements[k])
    ELSE 0

RECURSIVE AssembleUpTo(_, _, _, _)
\* the features appended by the elements i..last
AssembleUpTo(elements, i, last, location_name) ==
    IF i > last THEN <<>>
    ELSE WayFeatures(elements, elements[i], location_name)
         \o AssembleUpTo(elements, i + 1, last, location_name)

\* data.get('elements', [])
Elements(d) == IF Has(d, "elements") THEN d.elements ELSE <<>>

\* the loop over the elements raises (the dict of the nodes was built)
LoopRaises(d) == ~NodesRaises(Elements(d)) /\ FirstRaising(Elements(d)) > 0

AssembleRaises(d) == NodesRaises(Elements(d)) \/ LoopRaises(d)

\* the local list `features` when the loop raises
AssembledBeforeRaise(d, location_name) ==
    AssembleUpTo(Elements(d), 1, FirstRaising(Elements(d)) - 1, location_name)

Assemble(d, location_name) == AssembleFrom(Elements(d), 1, location_name)

(***************************************************************************)
(* What a mirror may answer with a 200 and a JSON body.                    *)
(***************************************************************************)
Node(id, lon, lat) == [type |-> "node", id |-> id, lon |-> lon, lat |-> lat]

SquareNodes == << Node(1, 0, 0), Node(2, 2, 0), Node(3, 2, 2), Node(4, 0, 2) >>

Responses ==
    { \* no tank in the bounding box
      [elements |-> <<>>],
      \* one tank, its ring given open, with a content tag
      [elements |-> << [type |-> "way", id |-> 101, nodes |-> <<1, 2, 3, 4>>,
                        tags |-> [man_made |-> "storage_tank", content |-> "oil"]] >>
                    \o SquareNodes],
      \* a remark, a way with a dangling reference, a bow-tie way and a relation
      [remark   |-> "runtime error",
       elements |-> << [type |-> "way", id |-> 102, nodes |-> <<1, 2, 9>>],
                       [type |-> "way", id |-> 103, nodes |-> <<1, 3, 2, 4, 1>>],
                       [type |-> "relation", id |-> 7] >> \o SquareNodes],
      \* an element without a 'type'
      [elements |-> << [id |-> 5] >> \o SquareNodes],
      \* the same way listed twice
      [elements |-> << [type |-> "way", id |-> 101, nodes |-> <<1, 2, 3, 4>>],
                       [type |-> "way", id |-> 101, nodes |-> <<1, 2, 3, 4, 1>>] >>
                    \o SquareNodes],
      \* a tank, then a way whose 'nodes' is null
      [elements |-> << [type |-> "way", id |-> 101, nodes |-> <<1, 2, 3, 4>>],
                       [type |-> "way", id |-> 104, nulls |-> {"nodes"}] >>
                    \o SquareNodes] }

(***************************************************************************)
(* The exception classes fetch_tanks handles.                              *)
(***************************************************************************)
FetchFailures == {"Timeout", "RequestException", "JSONDecodeError"}

\* the classes above each exception class (each is also a subclass of itself)
Superclasses(e) ==
    CASE e = "Timeout"          -> {"Timeout", "RequestException", "Exception"}
      [] e = "RequestException" -> {"RequestException", "Exception"}
      [] e = "JSONDecodeError"  -> {"JSONDecodeError", "Exception"}
      [] e = "KeyError"         -> {"KeyError", "Exception"}
      [] e = "TypeError"        -> {"TypeError", "Exception"}
      [] OTHER                  -> {e}

ExceptClausesNoJson == <<"Timeout", "RequestException">>

ExceptClausesNoException == <<"Timeout", "RequestException", "JSONDecodeError">>

\* the except clauses of fetch_tanks, in order
ExceptClauses == <<"Timeout", "RequestException", "JSONDecodeError", "Exception">>

\* some clause catches e
Caught(e) == \E i \in 1..Len(ExceptClauses) : ExceptClauses[i] \in Superclasses(e)

InRangeInclusive(k, retries) == k <= retries

\* for attempt in range(max_retries)
InRange(k, retries) == k < retries

Scripts == {"tank_polygons", "tank_polygons_by_region", "fetch_tanks"}

\* the variables of merge_tanker_jsons.py while another script runs
IdleMerge ==
    /\ data1 = <<>>
    /\ data2 = <<>>
    /\ pos = 0
    /\ seen_ids = {}
    /\ unique_features = <<>>
    /\ merged = None
    /\ report = None

\* the variables of working_weekly_data.py while another script runs
IdleRun ==
    /\ tank_metrics = Nothing
    /\ start = None
    /\ end = None
    /\ interval_days = None
    /\ current = None
    /\ dates = None
    /\ asset_i = 0
    /\ resolved = <<>>
    /\ valid_collections = None
    /\ missing_assets = None
    /\ storage_polygons = Nothing
    /\ composites = None
    /\ task = None

\* the variables of upload_to_gee.py while another script runs
IdleUpload ==
    /\ geojson_files = <<>>
    /\ file_i = 0
    /\ successful = 0
    /\ failed = 0

NotExited ==
    /\ success = None
    /\ exit_status = None

\* the variables of working_weekly_data.py while another script runs
IdleStats ==
    /\ config = None
    /\ catalog = {}
    /\ IdleRun

IdleEE == IdleStats /\ IdleUpload /\ NotExited

InitAcq ==
    /\ script \in Scripts
    /\ pc = IF script = "fetch_tanks" THEN "attempt" ELSE "loop"
    /\ loc = 1
    /\ calls = IF script = "fetch_tanks" THEN << <<"call", 1>> >> ELSE <<>>
    /\ max_retries \in IF script = "fetch_tanks" THEN 0..MaxRetries ELSE {DefaultMaxRetries}
    /\ attempt = 0
    /\ server = None
    /\ exc = None
    /\ data = None
    /\ features = None
    /\ log = <<>>
    /\ all_features = <<>>
    /\ total_tanks = 0
    /\ successful_regions = 0
    /\ saved = <<>>
    /\ IdleMerge
    /\ IdleEE

\* for location_name, bbox in LOCATIONS.items(): features = fetch_tanks(location_name, bbox)
CallFetch ==
    /\ script \in {"tank_polygons", "tank_polygons_by_region"}
    /\ pc = "loop"
    /\ loc <= Len(LOCATIONS)
    /\ calls' = Append(calls, <<"call", loc>>)
    /\ max_retries' = DefaultMaxRetries
    /\ attempt' = 0
    /\ log' = <<>>
    /\ features' = None
    /\ server' = None
    /\ exc' = None
    /\ data' = None
    /\ pc' = "attempt"
    /\ UNCHANGED <<mergeVars, eeVars>>
    /\ UNCHANGED <<script, loc, all_features, total_tanks, successful_regions, saved>>

wait_time_next(k) == BackoffUnit * (k + 1)

\* the backoff of attempt k
wait_time(k) == BackoffUnit * k

ServerOfFirst(k) == OVERPASS_SERVERS[1]

\* the mirror of attempt k
ServerOf(k) == OVERPASS_SERVERS[(k % Len(OVERPASS_SERVERS)) + 1]

\* for attempt in range(max_retries): pick the server, sleep before a retry;
\* when the range is exhausted, the final `return []`
BeginAttempt ==
    /\ pc = "attempt"
    /\ IF InRange(attempt, max_retries)
       THEN /\ server' = ServerOf(attempt)
            /\ log' = IF attempt > 0
                      THEN Append(log, [ev |-> "sleep", secs |-> wait_time(attempt)])
                      ELSE log
            /\ pc' = "request"
            /\ UNCHANGED features
       ELSE /\ features' = <<>>
            /\ pc' = "returned"
            /\ UNCHANGED <<server, log>>
    /\ UNCHANGED <<mergeVars, eeVars>>
    /\ UNCHANGED <<script, loc, calls, max_retries, attempt, exc, data, all_features,
                   total_tanks, successful_regions, saved>>

\* requests.post(...), raise_for_status(), response.json()
Request ==
    /\ pc = "request"
    /\ LET sent == Append(log, [ev |-> "request", attempt |-> attempt, server |-> server,
                                query |-> build_query(LOCATIONS[loc].bbox)])
       IN  \/ \E e \in FetchFailures :
                  /\ exc' = e
                  /\ log' = sent
                  /\ pc' = "except"
                  /\ UNCHANGED data
           \/ \E d \in Responses :
                  /\ data' = d
                  /\ log' = sent
                  /\ pc' = "assemble"
                  /\ UNCHANGED exc
    /\ UNCHANGED <<mergeVars, eeVars>>
    /\ UNCHANGED <<script, loc, calls, max_retries, attempt, server, features,
                   all_features, total_tanks, successful_regions, saved>>

\* lines 77-125: assemble the polygons, sleep 2 s, return them; an exception of
\* the assembly goes to `except Exception`
AssembleStep ==
    /\ pc = "assemble"
    /\ IF NodesRaises(Elements(data))
       THEN /\ exc' = "KeyError"
            /\ pc' = "except"
            /\ UNCHANGED <<features, log>>
       ELSE IF LoopRaises(data)
       THEN /\ exc' = "TypeError"
            /\ features' = AssembledBeforeRaise(data, LOCATIONS[loc].name)
            /\ pc' = "except"
            /\ UNCHANGED log
       ELSE /\ features' = Assemble(data, LOCATIONS[loc].name)
            /\ log' = log \o << [ev |-> "ok", attempt |-> attempt],
                                [ev |-> "sleep", secs |-> SuccessDelay] >>
            /\ pc' = "returned"
            /\ UNCHANGED exc
    /\ UNCHANGED <<mergeVars, eeVars>>
    /\ UNCHANGED <<script, loc, calls, max_retries, attempt, server, data,
                   all_features, total_tanks, successful_regions, saved>>

\* is this the attempt after which a handler gives up
IsLastAttempt(k, retries) == k = retries - 1

HandleRaisingWhenExhausted ==
    /\ pc = "except"
    /\ log' = Append(log, [ev |-> "fail", attempt |-> attempt, class |-> exc])
    /\ IF IsLastAttempt(attempt, max_retries)
       THEN /\ pc' = "raised"
            /\ UNCHANGED attempt
       ELSE /\ attempt' = attempt + 1
            /\ pc' = "attempt"
    /\ UNCHANGED <<script, loc, calls, max_retries, server, exc, data, features,
                   all_features, total_tanks, successful_regions, saved>>
    /\ UNCHANGED <<mergeVars, eeVars>>

\* the four except clauses: return [] on the last attempt, else continue; an
\* exception no clause catches leaves fetch_tanks and ends the script
Handle ==
    /\ pc = "except"
    /\ log' = Append(log, [ev |-> "fail", attempt |-> attempt, class |-> exc])
    /\ IF ~Caught(exc)
       THEN /\ pc' = "raised"
            /\ UNCHANGED <<attempt, features>>
       ELSE IF IsLastAttempt(attempt, max_retries)
       THEN /\ features' = <<>>
            /\ pc' = "returned"
            /\ UNCHANGED attempt
       ELSE /\ attempt' = attempt + 1
            /\ pc' = "attempt"
            /\ UNCHANGED features
    /\ UNCHANGED <<mergeVars, eeVars>>
    /\ UNCHANGED <<script, loc, calls, max_retries, server, exc, data,
                   all_features, total_tanks, successful_regions, saved>>

\* a direct call of fetch_tanks returns to its caller
ReturnToCaller ==
    /\ script = "fetch_tanks"
    /\ pc = "returned"
    /\ calls' = Append(calls, <<"return", loc>>)
    /\ pc' = "done"
    /\ UNCHANGED <<mergeVars, eeVars>>
    /\ UNCHANGED <<script, loc, max_retries, attempt, server, exc, data, features, log,
                   all_features, total_tanks, successful_regions, saved>>

\* tank_polygons.py: all_features.extend(features)
ExtendAll ==
    /\ script = "tank_polygons"
    /\ pc = "returned"
    /\ calls' = Append(calls, <<"return", loc>>)
    /\ all_features' = all_features \o features
    /\ loc' = loc + 1
    /\ pc' = "loop"
    /\ UNCHANGED <<mergeVars, eeVars>>
    /\ UNCHANGED <<script, max_retries, attempt, server, exc, data, features, log,
                   total_tanks, successful_regions, saved>>

\* tank_polygons_by_region.py: if features: write the region's file; a failed
\* write is reported and the loop goes on
SaveRegion ==
    /\ script = "tank_polygons_by_region"
    /\ pc = "returned"
    /\ calls' = Append(calls, <<"return", loc>>)
    /\ IF features /= <<>>
       THEN \/ /\ saved' = Append(saved, loc)
               /\ total_tanks' = total_tanks + Len(features)
               /\ successful_regions' = successful_regions + 1
            \/ UNCHANGED <<saved, total_tanks, successful_regions>>
       ELSE UNCHANGED <<saved, total_tanks, successful_regions>>
    /\ loc' = loc + 1
    /\ pc' = "loop"
    /\ UNCHANGED <<mergeVars, eeVars>>
    /\ UNCHANGED <<script, max_retries, attempt, server, exc, data, features, log,
                   all_features>>

\* after the loop: tank_polygons.py writes oil_tanks.geojson (a failure is
\* printed), tank_polygons_by_region.py prints its summary
Summary ==
    /\ script \in {"tank_polygons", "tank_polygons_by_region"}
    /\ pc = "loop"
    /\ loc > Len(LOCATIONS)
    /\ pc' = "summary"
    /\ exit_status' = 0     \* the script runs off its end
    /\ UNCHANGED <<script, acqVars, mergeVars, statsVars, uploadVars, success>>

\* the variables of the acquisition scripts, all_features apart, while another
\* script runs
IdleFetch ==
    /\ loc = 1
    /\ calls = <<>>
    /\ max_retries = DefaultMaxRetries
    /\ attempt = 0
    /\ server = None
    /\ exc = None
    /\ data = None
    /\ features = None
    /\ log = <<>>
    /\ total_tanks = 0
    /\ successful_regions = 0
    /\ saved = <<>>

IdleAcq == IdleFetch /\ all_features = <<>>

NextAcq ==
    \/ CallFetch
    \/ BeginAttempt
    \/ Request
    \/ AssembleStep
    \/ Handle
    \/ ReturnToCaller
    \/ ExtendAll
    \/ SaveRegion
    \/ Summary

(***************************************************************************)
(* merge_tanker_jsons.py                                                   *)
(***************************************************************************)
GetNothing(d, k) == <<>>

\* dict.get(k): <<v>> for a value v, <<>> for None
Get(d, k) == IF Has(d, k) THEN <<d[k]>> ELSE <<>>

\* the features a file may hold: tank ids 1..3, or no tank_id at all, each
\* with one of two geometries
FileFeatures ==
    { [geometry |-> g, properties |-> p] :
          g \in {"ring-a", "ring-b"},
          p \in { [tank_id |-> i, location |-> "X"] : i \in {1, 2, 3} }
                    \cup { [location |-> "X"] } }

RECURSIVE SeqsUpTo(_, _)
\* the sequences over S of length at most n
SeqsUpTo(S, n) ==
    IF n = 0 THEN { <<>> }
    ELSE LET shorter == SeqsUpTo(S, n - 1)
         IN  shorter \cup { Append(q, x) : q \in shorter, x \in S }

\* the two files are loaded and combined: all_features = data1['features'] + data2['features']
InitMerge ==
    /\ script = "merge_tanker_jsons"
    /\ pc = "dedup"
    /\ data1 \in SeqsUpTo(FileFeatures, MaxFeatures)
    /\ data2 \in SeqsUpTo(FileFeatures, MaxFeatures)
    /\ all_features = data1 \o data2
    /\ pos = 0
    /\ seen_ids = {}
    /\ unique_features = <<>>
    /\ merged = None
    /\ report = None
    /\ IdleFetch
    /\ IdleEE

IsNewAlways(tank_id, seen) == TRUE

IsNewOrUnkeyed(tank_id, seen) == tank_id = <<>> \/ tank_id \notin seen

\* is the feature's key new
IsNew(tank_id, seen) == tank_id \notin seen

\* the whole loop as a function of what is left to read
RECURSIVE Dedup(_, _, _)
Dedup(rest, seen, unique) ==
    IF rest = <<>> THEN unique
    ELSE LET feature == Head(rest)
             tank_id == Get(feature.properties, "tank_id")
         IN  IF IsNew(tank_id, seen)
             THEN Dedup(Tail(rest), seen \cup {tank_id}, Append(unique, feature))
             ELSE Dedup(Tail(rest), seen, unique)

\* unique_features for the files f1 and f2
MergeOf(f1, f2) == Dedup(f1 \o f2, {}, <<>>)

\* one iteration of `for feature in all_features`
DedupStep ==
    /\ script = "merge_tanker_jsons"
    /\ pc = "dedup"
    /\ pos < Len(all_features)
    /\ LET feature == all_features[pos + 1]
           tank_id == Get(feature.properties, "tank_id")
       IN  IF IsNew(tank_id, seen_ids)
           THEN /\ seen_ids' = seen_ids \cup {tank_id}
                /\ unique_features' = Append(unique_features, feature)
           ELSE UNCHANGED <<seen_ids, unique_features>>
    /\ pos' = pos + 1
    /\ UNCHANGED <<script, pc, data1, data2, merged, report>>
    /\ UNCHANGED <<acqVars, eeVars>>

\* after the loop: the merged collection is written and the counts are printed
WriteMerged ==
    /\ script = "merge_tanker_jsons"
    /\ pc = "dedup"
    /\ pos = Len(all_features)
    /\ merged' = unique_features
    /\ report' = [file1      |-> Len(data1),
                  file2      |-> Len(data2),
                  total      |-> Len(all_features),
                  unique     |-> Len(unique_features),
                  duplicates |-> Len(all_features) - Len(unique_features)]
    /\ pc' = "done"
    /\ UNCHANGED <<script, data1, data2, pos, seen_ids, unique_features>>
    /\ UNCHANGED <<acqVars, eeVars>>

NextMerge == DedupStep \/ WriteMerged

SpecMerge == InitMerge /\ [][NextMerge]_vars

(***************************************************************************)
(* working_weekly_data.py: configuration.                                  *)
(***************************************************************************)
START_DATE == [year |-> 2024, month |-> 1, day |-> 3]

END_DATE == [year |-> 2024, month |-> 3, day |-> 1]

COMPOSITE_INTERVAL_DAYS == 7

EIA_RELEASE_WEEKDAY == 2

REGION_ASSETS ==
    << "users/2samenpoli/oil-tankers/fujairah_uae",
       "users/2samenpoli/oil-tankers/rotterdam_netherlands",
       "users/2samenpoli/oil-tankers/jurong_island_singapore",
       "users/2samenpoli/oil-tankers/houston_ship_channel_usa",
       "users/2samenpoli/oil-tankers/saldanha_bay_south_africa",
       "users/2samenpoli/oil-tankers/zhoushan_china",
       "users/2samenpoli/oil-tankers/cushing_ok" >>

(***************************************************************************)
(* datetime: a datetime at midnight is its proleptic Gregorian ordinal     *)
(* (1 = 0001-01-01); strftime('%Y-%m-%d') gives the fields <<y, m, d>>,    *)
(* which order as the zero-padded text does.                               *)
(***************************************************************************)
IsLeap(y) == y % 4 = 0 /\ (y % 100 /= 0 \/ y % 400 = 0)

DaysInMonth(y, m) ==
    IF m = 2 THEN (IF IsLeap(y) THEN 29 ELSE 28)
    ELSE IF m \in {4, 6, 9, 11} THEN 30 ELSE 31

DaysBeforeYear(y) ==
    (y - 1) * 365 + ((y - 1) \div 4) - ((y - 1) \div 100) + ((y - 1) \div 400)

RECURSIVE DaysBeforeMonth(_, _)
DaysBeforeMonth(y, m) ==
    IF m = 1 THEN 0 ELSE DaysBeforeMonth(y, m - 1) + DaysInMonth(y, m - 1)

\* datetime(y, m, d)
ToOrdinal(date) ==
    DaysBeforeYear(date.year) + DaysBeforeMonth(date.year, date.month) + date.day

\* the years the dates of the model fall in
ModelYears == {2023, 2024, 2025}

\* dt.strftime('%Y-%m-%d')
strftime(n) ==
    LET y == CHOOSE yy \in ModelYears :
                 DaysBeforeYear(yy) < n /\ n <= DaysBeforeYear(yy + 1)
        m == CHOOSE mm \in 1..12 :
                 /\ DaysBeforeYear(y) + DaysBeforeMonth(y, mm) < n
                 /\ n <= DaysBeforeYear(y) + DaysBeforeMonth(y, mm) + DaysInMonth(y, mm)
    IN  <<y, m, n - DaysBeforeYear(y) - DaysBeforeMonth(y, m)>>

weekdaySundayFirst(n) == n % 7

\* dt.weekday(): Monday = 0
weekday(n) == (n + 6) % 7

AdvanceOneMore(n, days) == n + days + 1

\* dt + timedelta(days=days)
Advance(n, days) == n + days

(***************************************************************************)
(* generate_date_list                                                      *)
(***************************************************************************)
\* generate_date_list(start, end, interval_days) called on its own
InitDates ==
    /\ script = "generate_date_list"
    /\ pc = "dates"
    /\ start \in { ToOrdinal(START_DATE) + i : i \in 0..MaxShift }
    /\ end \in { ToOrdinal(END_DATE) - i : i \in 0..MaxShift }
                 \cup { ToOrdinal(START_DATE) + i : i \in 0..MaxShift }
    /\ interval_days \in 1..MaxIntervalDays
    /\ current = start
    /\ dates = <<>>
    /\ config = None
    /\ catalog = {}
    /\ tank_metrics = Nothing
    /\ asset_i = 0
    /\ resolved = <<>>
    /\ valid_collections = None
    /\ missing_assets = None
    /\ storage_polygons = Nothing
    /\ composites = None
    /\ task = None
    /\ IdleUpload
    /\ NotExited
    /\ IdleAcq
    /\ IdleMerge

\* while current < end: dates.append(current.strftime('%Y-%m-%d')); current += timedelta(...)
DateStep ==
    /\ pc = "dates"
    /\ current < end
    /\ dates' = Append(dates, strftime(current))
    /\ current' = Advance(current, interval_days)
    /\ UNCHANGED <<script, config, catalog, tank_metrics, pc, start, end, interval_days, asset_i, resolved,
                   valid_collections, missing_assets, storage_polygons, composites, task>>
    /\ UNCHANGED <<acqVars, mergeVars, uploadVars, exitVars>>

\* the loop ends: return dates
DatesReturn ==
    /\ pc = "dates"
    /\ ~(current < end)
    /\ pc' = IF script = "generate_date_list" THEN "done" ELSE "composites"
    /\ UNCHANGED <<script, statsVars>>
    /\ UNCHANGED <<acqVars, mergeVars, uploadVars, exitVars>>

NextDates == DateStep \/ DatesReturn

SpecDates == InitDates /\ [][NextDates]_vars

(***************************************************************************)
(* working_weekly_data.py run as a script.                                 *)
(***************************************************************************)
\* the configuration of the source, and the same with a later anchor date
Configs ==
    { [START_DATE |-> ToOrdinal(START_DATE) + i,
       END_DATE |-> ToOrdinal(END_DATE),
       COMPOSITE_INTERVAL_DAYS |-> COMPOSITE_INTERVAL_DAYS] : i \in 0..MaxShift }

\* what the image catalogue may hold: no qualifying scene at all, or scenes on
\* a few days, which leaves most windows without one
Catalogs ==
    { {}, { ToOrdinal(START_DATE) + i : i \in {1, 2, 15, 57} } }

InitStats ==
    /\ script = "working_weekly_data"
    /\ pc = "module"
    /\ config \in Configs
    /\ catalog \in Catalogs
    /\ IdleRun
    /\ IdleUpload
    /\ NotExited
    /\ IdleAcq
    /\ IdleMerge

\* module level: START_DATE must fall on the EIA release weekday
CheckAnchor ==
    /\ script = "working_weekly_data"
    /\ pc = "module"
    /\ IF weekday(config.START_DATE) /= EIA_RELEASE_WEEKDAY
       THEN /\ pc' = "raised"
            /\ exit_status' = 1
       ELSE /\ pc' = "initialize_ee"
            /\ UNCHANGED exit_status
    /\ UNCHANGED <<script, success, statsVars, uploadVars, acqVars, mergeVars>>

\* run_extraction: if not initialize_ee(): return False; then load_storage_polygons()
InitializeEE ==
    /\ script = "working_weekly_data"
    /\ pc = "initialize_ee"
    /\ \/ /\ success' = FALSE
          /\ pc' = "return"
          /\ UNCHANGED <<valid_collections, missing_assets>>
       \/ /\ valid_collections' = <<>>
          /\ missing_assets' = <<>>
          /\ pc' = "load"
          /\ UNCHANGED success
    /\ UNCHANGED <<script, config, catalog, tank_metrics, start, end, interval_days, current, dates, asset_i,
                   resolved, storage_polygons, composites, task>>
    /\ UNCHANGED <<exit_status, uploadVars, acqVars, mergeVars>>

\* the features of the asset of region i when it holds n of them
Collection(i, n) == [k \in 1..n |-> [asset |-> REGION_ASSETS[i], tank |-> k]]

\* what the backend may answer for an asset: its features (possibly none), that
\* it does not exist (ee.EEException), or another error
AssetAnswers(i) ==
    { [asset |-> REGION_ASSETS[i], kind |-> "count", collection |-> Collection(i, n)] :
          n \in 0..MaxCount }
    \cup { [asset |-> REGION_ASSETS[i], kind |-> k, collection |-> <<>>] :
               k \in {"EEException", "Exception"} }

AcceptsEmpty(count) == count >= 0

\* if count > 0
Accepts(count) == count > 0

\* one iteration of `for asset in REGION_ASSETS`
LoadAsset ==
    /\ pc = "load"
    /\ asset_i < Len(REGION_ASSETS)
    /\ \E answer \in AssetAnswers(asset_i + 1) :
           /\ resolved' = Append(resolved, answer)
           /\ IF answer.kind = "count"
              THEN /\ valid_collections' =
                          IF Accepts(Len(answer.collection))
                          THEN Append(valid_collections, answer.collection)
                          ELSE valid_collections
                   /\ UNCHANGED missing_assets
              ELSE /\ missing_assets' = Append(missing_assets, answer.asset)
                   /\ UNCHANGED valid_collections
    /\ asset_i' = asset_i + 1
    /\ UNCHANGED <<script, config, catalog, tank_metrics, pc, start, end, interval_days, current, dates,
                   storage_polygons, composites, task>>
    /\ UNCHANGED <<exitVars, uploadVars, acqVars, mergeVars>>

\* a.merge(b): every feature of a, then every feature of b
merge(a, b) == a \o b

RECURSIVE MergeAll(_, _)
\* merged = valid_collections[0]; for coll in valid_collections[1:]: merged = merged.merge(coll)
MergeAll(acc, rest) ==
    IF rest = <<>> THEN acc ELSE MergeAll(merge(acc, Head(rest)), Tail(rest))

\* after the loop: None without a valid collection, else the merge, which may fail
MergeCollections ==
    /\ pc = "load"
    /\ asset_i = Len(REGION_ASSETS)
    /\ IF valid_collections = <<>>
       THEN /\ storage_polygons' = Nothing
            /\ UNCHANGED resolved
       ELSE \/ /\ storage_polygons' = Some(MergeAll(Head(valid_collections),
                                                   Tail(valid_collections)))
               /\ resolved' = Append(resolved, [kind |-> "merged"])
            \/ /\ storage_polygons' = Nothing
               /\ resolved' = Append(resolved, [kind |-> "merge failed"])
    /\ pc' = "load_returned"
    /\ UNCHANGED <<script, config, catalog, tank_metrics, start, end, interval_days, current, dates, asset_i,
                   valid_collections, missing_assets, composites, task>>
    /\ UNCHANGED <<exitVars, uploadVars, acqVars, mergeVars>>

\* run_extraction: if storage_polygons is None: return False; else
\* dates = generate_date_list(START_DATE, END_DATE, COMPOSITE_INTERVAL_DAYS)
AfterLoad ==
    /\ pc = "load_returned"
    /\ IF storage_polygons = Nothing
       THEN /\ success' = FALSE
            /\ pc' = "return"
            /\ UNCHANGED <<start, end, interval_days, current, dates>>
       ELSE /\ start' = config.START_DATE
            /\ end' = config.END_DATE
            /\ interval_days' = config.COMPOSITE_INTERVAL_DAYS
            /\ current' = config.START_DATE
            /\ dates' = <<>>
            /\ pc' = "dates"
            /\ UNCHANGED success
    /\ asset_i' = 0
    /\ resolved' = <<>>
    /\ valid_collections' = None
    /\ missing_assets' = None
    /\ composites' = <<>>
    /\ UNCHANGED <<script, config, catalog, tank_metrics, storage_polygons, task>>
    /\ UNCHANGED <<exit_status, uploadVars, acqVars, mergeVars>>

\* ee.Date(date_str)
ParseDate(text) == ToOrdinal([year |-> text[1], month |-> text[2], day |-> text[3]])

\* the images of the catalogue that .filterDate(start, end) keeps
filterDate(from, until) == { day \in catalog : from <= day /\ day < until }

create_compositeShort(date_str) ==
    LET from  == ParseDate(date_str)
        until == Advance(from, config.COMPOSITE_INTERVAL_DAYS - 1)
    IN  [week |-> date_str, from |-> from, until |-> until,
         scenes |-> filterDate(from, until)]

\* create_composite(date_str, storage_bounds): the median of the qualifying
\* scenes of the window [start, start + COMPOSITE_INTERVAL_DAYS days)
create_composite(date_str) ==
    LET from  == ParseDate(date_str)
        until == Advance(from, config.COMPOSITE_INTERVAL_DAYS)
    IN  [week |-> date_str, from |-> from, until |-> until,
         scenes |-> filterDate(from, until)]

\* ee.Reducer.count(): the valid pixels of the image inside the polygon; a tank
\* is one pixel here, valid when a scene of the composite shows it
CountValid(image, polygon) == IF image.scenes = {} THEN 0 ELSE 1

extract_statisticsOfSeen(image, polygons) ==
    IF image.scenes = {} THEN <<>>
    ELSE [i \in 1..Len(polygons) |->
             [tank |-> polygons[i], week |-> image.week,
              B8_mean_count |-> CountValid(image, polygons[i])]]

\* extract_statistics: image.reduceRegions(collection=storage_polygons, ...) gives
\* one feature per polygon, in the order of the collection; each gets the week
extract_statistics(image, polygons) ==
    [i \in 1..Len(polygons) |->
        [tank |-> polygons[i], week |-> image.week,
         B8_mean_count |-> CountValid(image, polygons[i])]]

RECURSIVE MapFlatten(_, _)
\* weekly_images.map(lambda img: extract_statistics(img, storage_polygons)).flatten()
MapFlatten(images, polygons) ==
    IF images = <<>> THEN <<>>
    ELSE extract_statistics(Head(images), polygons) \o MapFlatten(Tail(images), polygons)

\* one iteration of `for date_str in dates`
CompositeStep ==
    /\ pc = "composites"
    /\ Len(composites) < Len(dates)
    /\ composites' = Append(composites, create_composite(dates[Len(composites) + 1]))
    /\ UNCHANGED <<script, config, catalog, tank_metrics, pc, start, end, interval_days, current, dates, asset_i,
                   resolved, valid_collections, missing_assets, storage_polygons, task>>
    /\ UNCHANGED <<exitVars, uploadVars, acqVars, mergeVars>>

\* the export task is created and started, return True; an error of the backend
\* is not caught and ends the script
StartExport ==
    /\ pc = "composites"
    /\ Len(composites) = Len(dates)
    /\ \/ /\ tank_metrics' = Some(MapFlatten(composites, storage_polygons[1]))
          /\ task' = "started"
          /\ success' = TRUE
          /\ pc' = "return"
          /\ UNCHANGED exit_status
       \/ /\ pc' = "raised"
          /\ exit_status' = 1
          /\ UNCHANGED <<tank_metrics, task, success>>
    /\ UNCHANGED <<script, config, catalog, start, end, interval_days, current, dates, asset_i,
                   resolved, valid_collections, missing_assets, storage_polygons,
                   composites>>
    /\ UNCHANGED <<uploadVars, acqVars, mergeVars>>

\* exit(0 if success else 1)
Exit ==
    /\ pc = "return"
    /\ exit_status' = IF success THEN 0 ELSE 1
    /\ pc' = "exit"
    /\ UNCHANGED <<script, success, statsVars, uploadVars, acqVars, mergeVars>>

(***************************************************************************)
(* run_extraction, from the date list to the composites, under any         *)
(* configuration of the anchor, the end date and the interval.             *)
(***************************************************************************)
InitWindows ==
    /\ script = "composites"
    /\ pc = "dates"
    /\ config \in
           { [START_DATE |-> s, END_DATE |-> e, COMPOSITE_INTERVAL_DAYS |-> d] :
                 s \in { ToOrdinal(START_DATE) + i : i \in 0..MaxShift },
                 e \in { ToOrdinal(END_DATE) - i : i \in 0..MaxShift }
                          \cup { ToOrdinal(START_DATE) + i : i \in 0..MaxShift },
                 d \in 1..MaxIntervalDays }
    /\ catalog \in Catalogs
    /\ tank_metrics = Nothing
    /\ start = config.START_DATE
    /\ end = config.END_DATE
    /\ interval_days = config.COMPOSITE_INTERVAL_DAYS
    /\ current = start
    /\ dates = <<>>
    /\ asset_i = 0
    /\ resolved = <<>>
    /\ valid_collections = None
    /\ missing_assets = None
    /\ storage_polygons = Nothing
    /\ composites = <<>>
    /\ task = None
    /\ IdleUpload
    /\ NotExited
    /\ IdleAcq
    /\ IdleMerge

NextWindows == DateStep \/ DatesReturn \/ CompositeStep

SpecWindows == InitWindows /\ [][NextWindows]_vars

NextStats ==
    \/ CheckAnchor
    \/ InitializeEE
    \/ LoadAsset
    \/ MergeCollections
    \/ AfterLoad
    \/ DateStep
    \/ DatesReturn
    \/ CompositeStep
    \/ StartExport
    \/ Exit

SpecStats == InitStats /\ [][NextStats]_vars

(***************************************************************************)
(* upload_to_gee.py run as a script.                                       *)
(***************************************************************************)
\* what a region file may hold: text that is no JSON, or a JSON object
FileContents ==
    { [parses |-> FALSE, data |-> [type |-> "FeatureCollection"]],
      [parses |-> TRUE,  data |-> [type |-> "Feature"]],
      [parses |-> TRUE,  data |-> [features |-> << [type |-> "Feature"] >>]],
      [parses |-> TRUE,  data |-> [type |-> "FeatureCollection"]],
      [parses |-> TRUE,  data |-> [type |-> "FeatureCollection", features |-> <<>>]],
      [parses |-> TRUE,  data |-> [type |-> "FeatureCollection",
                                   features |-> << [type |-> "Feature"] >>]],
      [parses |-> TRUE,  data |-> [type |-> "FeatureCollection",
                                   features |-> << [type |-> "Feature"],
                                                   [type |-> "Bogus"] >>]] }

\* validate_geojson: the file parses, data.get('type') is 'FeatureCollection'
\* and data.get('features', []) is not empty
validate_geojson(file) ==
    /\ file.parses
    /\ Get(file.data, "type") = <<"FeatureCollection">>
    /\ Get(file.data, "features") \notin {<<>>, << <<>> >>}

\* ee.Feature(feat) for every feature: raises on what is no GeoJSON feature
ConversionRaises(file) ==
    \E i \in 1..Len(file.data.features) : file.data.features[i].type /= "Feature"

\* upload_region: validate, convert, start the export task; every failure is
\* caught and makes it return False
upload_region(file, export_starts) ==
    /\ validate_geojson(file)
    /\ ~ConversionRaises(file)
    /\ export_starts

InitUpload ==
    /\ script = "upload_to_gee"
    /\ pc = "upload_init"
    /\ IdleStats
    /\ IdleUpload
    /\ NotExited
    /\ IdleAcq
    /\ IdleMerge

\* upload_all_regions: ee.Initialize fails: return False; glob finds no file:
\* return False; else start the loop
UploadInit ==
    /\ pc = "upload_init"
    /\ \/ /\ success' = FALSE
          /\ pc' = "return"
          /\ UNCHANGED geojson_files
       \/ \E n \in 0..Len(LOCATIONS) :
              /\ geojson_files' = [i \in 1..n |-> i]
              /\ IF n = 0
                 THEN success' = FALSE /\ pc' = "return"
                 ELSE pc' = "upload" /\ UNCHANGED success
    /\ file_i' = 0
    /\ successful' = 0
    /\ failed' = 0
    /\ UNCHANGED <<script, exit_status, statsVars, acqVars, mergeVars>>

\* one iteration of `for filepath in geojson_files`
UploadRegion ==
    /\ pc = "upload"
    /\ file_i < Len(geojson_files)
    /\ \E file \in FileContents, export_starts \in BOOLEAN :
           IF upload_region(file, export_starts)
           THEN successful' = successful + 1 /\ UNCHANGED failed
           ELSE failed' = failed + 1 /\ UNCHANGED successful
    /\ file_i' = file_i + 1
    /\ UNCHANGED <<script, pc, geojson_files, exitVars, statsVars, acqVars, mergeVars>>

UploadResultAny(succeeded, failures) == succeeded > 0

\* return failed == 0
UploadResult(succeeded, failures) == failures = 0

\* after the loop: the summary is printed and the result returned
UploadSummary ==
    /\ pc = "upload"
    /\ file_i = Len(geojson_files)
    /\ success' = UploadResult(successful, failed)
    /\ pc' = "return"
    /\ UNCHANGED <<script, exit_status, uploadVars, statsVars, acqVars, mergeVars>>

NextUpload ==
    \/ UploadInit
    \/ UploadRegion
    \/ UploadSummary
    \/ Exit

SpecUpload == InitUpload /\ [][NextUpload]_vars

(***************************************************************************)
(* The stages of the pipeline, each run as its own script.                 *)
(***************************************************************************)
InitStages == InitAcq \/ InitUpload \/ InitStats

NextStages ==
    \/ CallFetch
    \/ BeginAttempt
    \/ Request
    \/ AssembleStep
    \/ Handle
    \/ ReturnToCaller
    \/ ExtendAll
    \/ SaveRegion
    \/ Summary
    \/ UploadInit
    \/ UploadRegion
    \/ UploadSummary
    \/ CheckAnchor
    \/ InitializeEE
    \/ LoadAsset
    \/ MergeCollections
    \/ AfterLoad
    \/ DateStep
    \/ DatesReturn
    \/ CompositeStep
    \/ StartExport
    \/ Exit

SpecStages == InitStages /\ [][NextStages]_vars

Init == InitAcq

Next == NextAcq

Spec == Init /\ [][Next]_vars

(***************************************************************************)
(* Readings of the history of one fetch_tanks call.                        *)
(***************************************************************************)
EventsOf(kind) == SelectSeq(log, LAMBDA e : e.ev = kind)

NumRequests == Len(EventsOf("request"))

NumFails == Len(EventsOf("fail"))

NoOk == EventsOf("ok") = <<>>

\* fetch_tanks has returned and its caller has not yet moved on
Returned == pc \in {"returned", "done"}

\* the sleeps of the retries: every sleep but the one that follows a success
IsBackoff(i) == log[i].ev = "sleep" /\ ~(i > 1 /\ log[i - 1].ev = "ok")

RECURSIVE BackoffTotal(_)
BackoffTotal(i) ==
    IF i = 0 THEN 0
    ELSE (IF IsBackoff(i) THEN log[i].secs ELSE 0) + BackoffTotal(i - 1)

(***************************************************************************)
(* C1: a fetch_tanks call sends at most max_retries requests, and none     *)
(* after the first attempt that succeeds.                                  *)
(***************************************************************************)
C1_RequestsBounded ==
    /\ NumRequests <= max_retries
    /\ \A i, j \in 1..Len(log) :
           (i < j /\ log[i].ev = "ok") => log[j].ev /= "request"

\* a call with room for more attempts that succeeded on its second attempt
C1_Witness ==
    /\ script = "fetch_tanks" /\ pc = "done"
    /\ max_retries > 2 /\ NumRequests = 2 /\ ~NoOk

(***************************************************************************)
(* C2: the k-th request of a call (0-based) goes to                        *)
(* OVERPASS_SERVERS[k mod len(OVERPASS_SERVERS)]; consecutive requests use *)
(* different mirrors, and between two requests to the same mirror every    *)
(* mirror is used.                                                         *)
(***************************************************************************)
C2_RoundRobin ==
    LET reqs == EventsOf("request")
        n == Len(OVERPASS_SERVERS)
    IN  /\ \A k \in 1..Len(reqs) :
               /\ reqs[k].attempt = k - 1
               /\ reqs[k].server = OVERPASS_SERVERS[((k - 1) % n) + 1]
        /\ \A k \in 1..(Len(reqs) - 1) : n > 1 => reqs[k].server /= reqs[k + 1].server
        /\ \A i, j \in 1..Len(reqs) :
               (i < j /\ reqs[i].server = reqs[j].server) =>
                   { reqs[m].server : m \in i..(j - 1) }
                       = { OVERPASS_SERVERS[m] : m \in 1..n }

\* a call whose fourth request went back to the first mirror
C2_Witness ==
    LET reqs == EventsOf("request")
    IN  /\ script = "fetch_tanks" /\ pc = "done"
        /\ Len(reqs) = 4
        /\ reqs[4].server = OVERPASS_SERVERS[1]
        /\ reqs[2].server = OVERPASS_SERVERS[2]

(***************************************************************************)
(* C3: when every attempt fails, in whatever mix of timeout, network error *)
(* and malformed body, fetch_tanks returns [] and raises nothing; every    *)
(* failure before the last attempt is followed by another attempt, so a    *)
(* call that returns without a success has made max_retries attempts.      *)
(***************************************************************************)
C3_ExhaustionReturnsEmpty ==
    /\ pc /= "raised"
    /\ (Returned /\ NoOk) =>
           /\ features = <<>>
           /\ NumFails = max_retries
           /\ NumRequests = max_retries
    /\ \A i \in 1..Len(log) :
           (log[i].ev = "fail" /\ log[i].attempt < max_retries - 1 /\ i < Len(log)) =>
               \E j \in (i + 1)..Len(log) :
                   log[j].ev = "request" \/ (j = Len(log) /\ pc = "request")

\* three attempts, one failure of each class, the empty list returned
C3_Witness ==
    /\ script = "fetch_tanks" /\ pc = "done"
    /\ max_retries = 3 /\ NoOk /\ features = <<>>
    /\ { e.class : e \in { log[i] : i \in { k \in 1..Len(log) : log[k].ev = "fail" } } }
           = {"Timeout", "RequestException", "JSONDecodeError"}

(***************************************************************************)
(* C4: the request of attempt 0 is the first thing a call does; the        *)
(* request of attempt k >= 1 comes right after one sleep of 5*k seconds,   *)
(* which comes right after the failure of attempt k-1; a call that has     *)
(* made n attempts has slept 5*(0+1+...+(n-1)) seconds in backoff.         *)
(***************************************************************************)
C4_LinearBackoff ==
    /\ \A i \in 1..Len(log) :
           log[i].ev = "request" =>
               IF log[i].attempt = 0
               THEN i = 1
               ELSE /\ i >= 3
                    /\ log[i - 1] = [ev |-> "sleep", secs |-> 5 * log[i].attempt]
                    /\ log[i - 2].ev = "fail"
                    /\ log[i - 2].attempt = log[i].attempt - 1
    /\ \A i \in 1..Len(log) :
           IsBackoff(i) =>
               /\ i > 1 /\ log[i - 1].ev = "fail"
               /\ IF i < Len(log) THEN log[i + 1].ev = "request" ELSE pc = "request"
    /\ Returned => 2 * BackoffTotal(Len(log)) = 5 * NumRequests * (NumRequests - 1)

\* a call of three attempts: 5 s and 10 s of backoff
C4_Witness ==
    /\ script = "fetch_tanks" /\ pc = "done"
    /\ NumRequests = 3
    /\ BackoffTotal(Len(log)) = 15

(***************************************************************************)
(* C10: the region loop calls fetch_tanks once per configured region, in   *)
(* configuration order, each call starting after the previous one has      *)
(* returned; a region whose attempts are exhausted adds nothing and the    *)
(* loop goes on to the next region; the run reaches its final summary.     *)
(***************************************************************************)
LoopScripts == {"tank_polygons", "tank_polygons_by_region"}

\* call 1, return 1, call 2, return 2, ...
CallsInOrder ==
    \A i \in 1..Len(calls) :
        calls[i] = <<IF i % 2 = 1 THEN "call" ELSE "return", (i + 1) \div 2>>

ExhaustedRegionSkipped ==
    (script \in LoopScripts /\ pc = "returned" /\ NoOk) =>
        /\ features = <<>>
        /\ all_features' = all_features
        /\ saved' = saved
        /\ total_tanks' = total_tanks
        /\ loc' = loc + 1
        /\ pc' = "loop"

\* a measure of the work left: the regions still to fetch, then the attempts
\* left in the current call, then the position inside the attempt
StepsLeftInCall ==
    CASE pc = "loop"     -> 4 * DefaultMaxRetries + 6
      [] pc = "attempt"  -> 4 * (max_retries - attempt) + 5
      [] pc = "request"  -> 4 * (max_retries - attempt) + 4
      [] pc = "assemble" -> 4 * (max_retries - attempt) + 3
      [] pc = "except"   -> 4 * (max_retries - attempt) + 2
      [] pc = "returned" -> 1
      [] OTHER           -> 0

StepsLeft ==
    (Len(LOCATIONS) + 1 - loc) * (4 * DefaultMaxRetries + 7) + StepsLeftInCall

\* a loop script that is not at its summary can take a step (at "assemble" it
\* always can: AssembleStep has no other guard)
NotStuck ==
    (script \in LoopScripts /\ pc \notin {"summary", "assemble"}) =>
        ENABLED (CallFetch \/ BeginAttempt \/ Request \/ Handle
                     \/ ExtendAll \/ SaveRegion \/ Summary)

\* the run reaches its summary: it is never stuck before it, and every step
\* lowers a measure that stays >= 0
C10_RegionLoop ==
    /\ [](/\ CallsInOrder
          /\ (pc = "summary" => Len(calls) = 2 * Len(LOCATIONS))
          /\ StepsLeft >= 0
          /\ NotStuck)
    /\ [][ExhaustedRegionSkipped /\ StepsLeft' < StepsLeft]_vars

\* the summary reached although the last region exhausted its attempts after an
\* earlier region had delivered a tank
C10_Witness ==
    /\ script = "tank_polygons" /\ pc = "summary"
    /\ Len(calls) = 2 * Len(LOCATIONS)
    /\ NoOk /\ NumFails = DefaultMaxRetries
    /\ Len(all_features) = 1
    /\ all_features[1].properties.location = "Fujairah, UAE"

(***************************************************************************)
(* Readings of a finished merge.                                           *)
(***************************************************************************)
MergeDone == script = "merge_tanker_jsons" /\ pc = "done"

\* a feature's tank_id, <<>> when it has none
KeyOf(feature) ==
    IF "tank_id" \in DOMAIN feature.properties
    THEN <<feature.properties.tank_id>> ELSE <<>>

KeysOf(fs) == [i \in 1..Len(fs) |-> KeyOf(fs[i])]

DistinctKeys(fs) ==
    \A i, j \in 1..Len(fs) : i /= j => KeyOf(fs[i]) /= KeyOf(fs[j])

\* the places of the concatenation that hold the first feature of their key
FirstPlaces ==
    { i \in 1..Len(all_features) :
          \A j \in 1..(i - 1) : KeyOf(all_features[j]) /= KeyOf(all_features[i]) }

\* the k-th smallest of them
FirstPlace(k) ==
    CHOOSE i \in FirstPlaces : Cardinality({ j \in FirstPlaces : j <= i }) = k

(***************************************************************************)
(* C5: the merged output is the concatenation of the two files with, for   *)
(* each tank_id, only its earliest feature kept, unchanged and in the      *)
(* order of the concatenation; its tank_ids are pairwise distinct; files   *)
(* with ids [1,2] and [2,3] give [1, 2 of the first file, 3] and the       *)
(* counts total 4, unique 3, duplicates removed 1.                         *)
(***************************************************************************)
C5_FirstWinsMerge ==
    MergeDone =>
        /\ all_features = data1 \o data2
        /\ Len(merged) = Cardinality(FirstPlaces)
        /\ \A k \in 1..Len(merged) : merged[k] = all_features[FirstPlace(k)]
        /\ DistinctKeys(merged)
        /\ report.total = Len(data1) + Len(data2)
        /\ report.unique = Len(merged)
        /\ report.duplicates = report.total - report.unique
        /\ (KeysOf(data1) = << <<1>>, <<2>> >> /\ KeysOf(data2) = << <<2>>, <<3>> >>) =>
               /\ merged = << data1[1], data1[2], data2[2] >>
               /\ report.total = 4 /\ report.unique = 3 /\ report.duplicates = 1

\* the scenario, the two features of id 2 differing in geometry
C5_Witness ==
    /\ MergeDone
    /\ KeysOf(data1) = << <<1>>, <<2>> >>
    /\ KeysOf(data2) = << <<2>>, <<3>> >>
    /\ data1[2].geometry /= data2[1].geometry
    /\ merged[2] = data1[2]

(***************************************************************************)
(* C6: merging a set of pairwise distinct tank_ids with itself gives that  *)
(* set back, same size and order; merging the output of any merge with     *)
(* itself gives that output back.                                          *)
(***************************************************************************)
C6_MergeIdempotent ==
    MergeDone =>
        /\ (data1 = data2 /\ DistinctKeys(data1)) => merged = data1
        /\ MergeOf(merged, merged) = merged

\* a set of two tanks merged with itself
C6_Witness ==
    /\ MergeDone
    /\ data1 = data2 /\ Len(data1) = 2 /\ DistinctKeys(data1)
    /\ merged = data1 /\ report.duplicates = 2

(***************************************************************************)
(* Readings of a date list.                                                *)
(***************************************************************************)
\* the text order of two 'YYYY-MM-DD' strings
DateTextLess(a, b) ==
    \/ a[1] < b[1]
    \/ a[1] = b[1] /\ a[2] < b[2]
    \/ a[1] = b[1] /\ a[2] = b[2] /\ a[3] < b[3]

\* the day a 'YYYY-MM-DD' string names
DayOfText(t) == ToOrdinal([year |-> t[1], month |-> t[2], day |-> t[3]])

\* generate_date_list(2024-01-03, 2024-03-01, 7) has returned
ConfiguredDatesDone ==
    /\ script = "generate_date_list" /\ pc = "done"
    /\ start = ToOrdinal(START_DATE)
    /\ end = ToOrdinal(END_DATE)
    /\ interval_days = COMPOSITE_INTERVAL_DAYS

\* strictly increasing from 2024-01-03 in steps of 7 days, all before 2024-03-01
WeeklyFromAnchor ==
    /\ dates /= <<>>
    /\ dates[1] = <<2024, 1, 3>>
    /\ \A i \in 1..(Len(dates) - 1) :
           /\ DateTextLess(dates[i], dates[i + 1])
           /\ DayOfText(dates[i + 1]) - DayOfText(dates[i]) = 7
    /\ \A i \in 1..Len(dates) : DateTextLess(dates[i], <<2024, 3, 1>>)

(***************************************************************************)
(* C7 as claimed: for start 2024-01-03, end 2024-03-01 and interval 7 the  *)
(* list has length 8, is strictly increasing from 2024-01-03 in steps of   *)
(* 7 days and holds only dates before 2024-03-01.                          *)
(***************************************************************************)
C7_AsClaimed == ConfiguredDatesDone => (Len(dates) = 8 /\ WeeklyFromAnchor)

(***************************************************************************)
(* C7 amended: the list has length 9 (2024-01-03 ... 2024-02-28), is       *)
(* strictly increasing from 2024-01-03 in steps of 7 days and holds only   *)
(* dates before 2024-03-01.                                                *)
(***************************************************************************)
C7_NineWindows ==
    ConfiguredDatesDone =>
        /\ Len(dates) = 9
        /\ WeeklyFromAnchor
        /\ dates[9] = <<2024, 2, 28>>

\* the configured call has returned its list
C7_Witness == ConfiguredDatesDone /\ Len(dates) > 0

(***************************************************************************)
(* Readings of the history of one load_storage_polygons call: `resolved`   *)
(* holds what the backend answered for each asset, then how the merge      *)
(* went.                                                                   *)
(***************************************************************************)
LoadReturned == script = "working_weekly_data" /\ pc = "load_returned"

\* the answers for the assets, in the order they were asked for
Attempts == SelectSeq(resolved, LAMBDA a : a.kind \in {"count", "EEException", "Exception"})

MergeFailed == \E i \in 1..Len(resolved) : resolved[i].kind = "merge failed"

\* the asset of answer a resolved with count > 0
ResolvedNonEmpty(a) == a.kind = "count" /\ Len(a.collection) >= 1

AcceptedAnswers == SelectSeq(Attempts, ResolvedNonEmpty)

RECURSIVE UnionInOrder(_)
\* the features of the answers of s, one answer after the other
UnionInOrder(s) ==
    IF s = <<>> THEN <<>> ELSE Head(s).collection \o UnionInOrder(Tail(s))

RECURSIVE SumOfSizes(_)
SumOfSizes(s) ==
    IF s = <<>> THEN 0 ELSE Len(Head(s).collection) + SumOfSizes(Tail(s))

(***************************************************************************)
(* C8: load_storage_polygons, whatever each configured asset does          *)
(* (resolves with count > 0, resolves with count 0, raises): every asset   *)
(* is attempted, in configuration order, and no outcome stops the loop;    *)
(* when the merge itself does not fail, the result is None if and only if  *)
(* no asset resolved with count > 0; a result that is not None is the      *)
(* union of exactly the accepted assets in configuration order, and its    *)
(* size is the sum of their sizes.                                         *)
(***************************************************************************)
C8_LoadStoragePolygons ==
    /\ (script = "working_weekly_data" /\ pc = "load") =>
           /\ Len(resolved) = asset_i
           /\ asset_i <= Len(REGION_ASSETS)
    /\ LoadReturned =>
           /\ Len(Attempts) = Len(REGION_ASSETS)
           /\ \A i \in 1..Len(Attempts) : Attempts[i].asset = REGION_ASSETS[i]
           /\ ~MergeFailed => ((storage_polygons = Nothing) <=> (AcceptedAnswers = <<>>))
           /\ MergeFailed => (storage_polygons = Nothing /\ AcceptedAnswers /= <<>>)
           /\ storage_polygons /= Nothing =>
                  /\ storage_polygons = Some(UnionInOrder(AcceptedAnswers))
                  /\ Len(storage_polygons[1]) = SumOfSizes(AcceptedAnswers)

\* the loader has returned a merged set after an asset that raised, an asset
\* that was empty and two accepted assets
C8_Witness ==
    /\ LoadReturned
    /\ storage_polygons /= Nothing
    /\ Len(AcceptedAnswers) >= 2
    /\ \E i, j \in 1..Len(Attempts) :
           /\ i < j
           /\ Attempts[i].kind = "EEException"
           /\ Attempts[j].kind = "count" /\ Attempts[j].collection = <<>>
    /\ \E i \in 1..Len(Attempts) :
           Attempts[i].kind = "count" /\ Len(Attempts[i].collection) >= 2

(***************************************************************************)
(* Readings of a finished stage.                                           *)
(***************************************************************************)
\* the script has called exit / sys.exit with its result
Exited == pc = "exit"

\* the assets whose features the merged set holds
AssetsIn(polygons) ==
    IF polygons = Nothing THEN {}
    ELSE { polygons[1][i].asset : i \in 1..Len(polygons[1]) }

\* the units (regions, files, assets) of the stage that produced usable data
UsableUnits ==
    CASE script = "upload_to_gee" -> successful
      [] script = "working_weekly_data" -> Cardinality(AssetsIn(storage_polygons))
      [] script = "tank_polygons_by_region" -> successful_regions
      [] OTHER -> Len(all_features)

(***************************************************************************)
(* C9 as claimed: for every stage that processes several regions or        *)
(* assets, the exit status is success whenever at least one unit produced  *)
(* usable data, even if others failed, and is failure only when every unit *)
(* failed.                                                                 *)
(***************************************************************************)
C9_AsClaimed ==
    /\ (Exited /\ UsableUnits > 0) => exit_status = 0
    /\ (Exited /\ exit_status /= 0) => UsableUnits = 0

(***************************************************************************)
(* C9 amended: the stages differ.  Statistics extraction that reaches its  *)
(* exit call exits 0 if and only if the loader returned a merged set (so   *)
(* with any number >= 1 of accepted assets, provided initialisation and    *)
(* the merge succeed) and the export task was started; an uncaught error   *)
(* ends it with status 1.  The upload exits 0 if and only if it found at   *)
(* least one region file and every file was uploaded (failed = 0): 5 of 7  *)
(* is a failure.  The acquisition scripts end with status 0 whatever the   *)
(* regions gave.                                                           *)
(***************************************************************************)
C9_ExitStatus ==
    /\ (script = "upload_to_gee" /\ Exited) =>
           /\ successful + failed = Len(geojson_files)
           /\ exit_status = 0 <=> (geojson_files /= <<>> /\ failed = 0)
    /\ (script = "working_weekly_data" /\ Exited) =>
           /\ exit_status = 0 <=> storage_polygons /= Nothing
           /\ exit_status = 0 <=> task = "started"
    /\ (script = "working_weekly_data" /\ pc = "raised") => exit_status = 1
    /\ (script \in LoopScripts /\ pc = "summary") => exit_status = 0

\* the upload has exited with failure after 5 of 7 files were uploaded
C9_Witness ==
    /\ script = "upload_to_gee" /\ Exited
    /\ successful = 5 /\ failed = 2
    /\ exit_status = 1

(***************************************************************************)
(* Readings of a feature list.                                             *)
(***************************************************************************)
\* no two features of the list carry the same tank_id
DistinctTankIds(fs) ==
    \A i, j \in 1..Len(fs) :
        i < j => fs[i].properties.tank_id /= fs[j].properties.tank_id

(***************************************************************************)
(* C11 as claimed: every feature list the acquisition produces has         *)
(* pairwise distinct tank_id values: the list fetch_tanks returns for one  *)
(* region, and the all-regions list tank_polygons.py has built when its    *)
(* loop is over, whatever the feature database answered.                   *)
(***************************************************************************)
C11_AsClaimed ==
    /\ Returned => DistinctTankIds(features)
    /\ (script = "tank_polygons" /\ pc = "summary") => DistinctTankIds(all_features)

(***************************************************************************)
(* Readings of the failures of the polygon assembly.                       *)
(***************************************************************************)
AssemblyErrors == {"KeyError", "TypeError"}

\* event i of the call history is the failure of an attempt in the assembly
AssemblyFail(i) == log[i].ev = "fail" /\ log[i].class \in AssemblyErrors

\* the call history from event i on begins with the events of es
FollowedBy(i, es) ==
    \A k \in 1..Len(es) : (i + k <= Len(log)) => log[i + k] = es[k]

\* the retry after a failed attempt k that sent query q: the backoff, then q to
\* the next mirror
RetryOf(k, q) ==
    << [ev |-> "sleep", secs |-> 5 * (k + 1)],
       [ev |-> "request", attempt |-> k + 1,
        server |-> OVERPASS_SERVERS[((k + 1) % 3) + 1],
        query |-> q] >>

(***************************************************************************)
(* C14: an exception raised while a received response is assembled is      *)
(* handled like a fetch failure.  It follows the request of its attempt    *)
(* directly (no success, no 2-second sleep); when attempts remain the      *)
(* backoff and the query to the next mirror follow; when it was the last   *)
(* attempt the call ends there and returns the empty list; what a call     *)
(* returns after a success is the assembly of that response alone, without *)
(* features of an earlier failed attempt; no exception leaves the call.    *)
(***************************************************************************)
C14_AssemblyFailureRetried ==
    /\ pc /= "raised"
    /\ (pc = "except" /\ exc \in AssemblyErrors) => AssembleRaises(data)
    /\ \A i \in 1..Len(log) :
           AssemblyFail(i) =>
               /\ i > 1
               /\ log[i - 1].ev = "request"
               /\ log[i - 1].attempt = log[i].attempt
               /\ IF log[i].attempt = max_retries - 1
                  THEN i = Len(log) /\ features = <<>>
                  ELSE /\ FollowedBy(i, RetryOf(log[i].attempt, log[i - 1].query))
                       /\ i = Len(log) =>
                              (pc = "attempt" /\ attempt = log[i].attempt + 1)
    /\ (Returned /\ ~NoOk) => features = Assemble(data, LOCATIONS[loc].name)

\* a call has returned the empty list after its last attempt raised in the
\* loop over the elements, one tank already assembled, and an earlier attempt
\* had raised too
C14_Witness ==
    /\ Returned
    /\ NoOk
    /\ Len(log) >= 2
    /\ AssemblyFail(Len(log))
    /\ log[Len(log)].class = "TypeError"
    /\ log[Len(log)].attempt = 2
    /\ \E i \in 1..(Len(log) - 1) : AssemblyFail(i)
    /\ AssembledBeforeRaise(data, LOCATIONS[loc].name) /= <<>>
    /\ features = <<>>

(***************************************************************************)
(* Readings of a run of the statistics program.                            *)
(***************************************************************************)
StatsRun == script = "working_weekly_data"

\* 0001-01-01, the day of ordinal 1, was a Monday: Wednesdays are 3 modulo 7
AnchorIsWednesday == config.START_DATE % 7 = 3

\* nothing was asked of the backend: no asset, no merged set, no export
NoBackendActivity ==
    /\ asset_i = 0
    /\ resolved = <<>>
    /\ storage_polygons = Nothing
    /\ tank_metrics = Nothing
    /\ task = None

(***************************************************************************)
(* C12: when the configured anchor date START_DATE is not a Wednesday, the *)
(* statistics program ends with an error at its first step, before any     *)
(* backend initialisation, asset load, composite or export, and nothing    *)
(* else ever happens in that run; when it is a Wednesday, the check only   *)
(* lets the program go on to the initialisation of the backend.            *)
(***************************************************************************)
C12_AnchorCheckedFirst ==
    /\ []((StatsRun /\ ~AnchorIsWednesday) =>
              /\ pc \in {"module", "raised"}
              /\ NoBackendActivity
              /\ pc = "raised" => exit_status = 1)
    /\ [][(StatsRun /\ pc = "module") =>
              /\ pc' = IF AnchorIsWednesday THEN "initialize_ee" ELSE "raised"
              /\ AnchorIsWednesday => UNCHANGED <<script, acqVars, mergeVars, eeVars>>]_vars

\* a run with an anchor that is no Wednesday has ended with the error
C12_Witness ==
    /\ StatsRun
    /\ ~AnchorIsWednesday
    /\ pc = "raised"
    /\ exit_status = 1
    /\ NoBackendActivity

(***************************************************************************)
(* Readings of the collection handed to the export.                        *)
(***************************************************************************)
ExportStarted == StatsRun /\ task = "started"

\* the catalogue holds no qualifying scene for the window that starts at dates[w]
NoScene(w) ==
    \A day \in catalog :
        ~(DayOfText(dates[w]) <= day /\ day < DayOfText(dates[w]) + 7)

Unkeyed(fs) == { i \in 1..Len(fs) : "tank_id" \notin DOMAIN fs[i].properties }

\* the tank_ids that occur in fs
IdsIn(fs) == { fs[i].properties.tank_id : i \in (1..Len(fs)) \ Unkeyed(fs) }

Least(S) == CHOOSE i \in S : \A j \in S : i <= j

(***************************************************************************)
(* C15: the features without a tank_id share one key: of all of them in    *)
(* the two files the merge keeps the first in the order of concatenation,  *)
(* whatever its geometry and theirs, drops every other and counts it as a  *)
(* duplicate; the output holds at most one feature without a tank_id.      *)
(***************************************************************************)
C15_UnkeyedCollapse ==
    MergeDone =>
        /\ Cardinality(Unkeyed(merged)) <= 1
        /\ Unkeyed(all_features) = {} => Unkeyed(merged) = {}
        /\ Unkeyed(all_features) /= {} =>
               /\ Cardinality(Unkeyed(merged)) = 1
               /\ merged[Least(Unkeyed(merged))] = all_features[Least(Unkeyed(all_features))]
        /\ report.unique = Cardinality(IdsIn(all_features))
                               + (IF Unkeyed(all_features) = {} THEN 0 ELSE 1)
        /\ report.duplicates = report.total - report.unique

\* three features without a tank_id, in both files and of both geometries,
\* were merged into one
C15_Witness ==
    /\ MergeDone
    /\ Cardinality(Unkeyed(all_features)) >= 3
    /\ Unkeyed(data1) /= {} /\ Unkeyed(data2) /= {}
    /\ \E i, j \in Unkeyed(all_features) :
           all_features[i].geometry /= all_features[j].geometry
    /\ Cardinality(Unkeyed(merged)) = 1
    /\ report.duplicates >= 2

(***************************************************************************)
(* Readings of the windows of the composites.                              *)
(***************************************************************************)
WindowsBuilt ==
    script = "composites" /\ pc = "composites" /\ Len(composites) = Len(dates)

\* the windows that hold the day
WindowsOf(day) ==
    { i \in 1..Len(composites) : composites[i].from <= day /\ day < composites[i].until }

(***************************************************************************)
(* C16: for start < end and an interval of d >= 1 days, the windows        *)
(* [s, s + d) of the composites, s the starts generate_date_list gives,    *)
(* are pairwise disjoint and contiguous and cover every day of             *)
(* [start, end); there are ceil((end - start) / d) of them; the last ends  *)
(* at end when d divides end - start and otherwise up to d - 1 days after  *)
(* it.  For start >= end there is no window.                               *)
(***************************************************************************)
C16_WindowsTile ==
    WindowsBuilt =>
        LET s == config.START_DATE
            e == config.END_DATE
            d == config.COMPOSITE_INTERVAL_DAYS
            n == Len(composites)
        IN  IF s >= e THEN dates = <<>> /\ n = 0
            ELSE /\ n = ((e - s) + d - 1) \div d
                 /\ composites[1].from = s
                 /\ \A i \in 1..n :
                        /\ composites[i].week = dates[i]
                        /\ composites[i].from = DayOfText(dates[i])
                        /\ composites[i].until = composites[i].from + d
                 /\ \A i \in 1..(n - 1) : composites[i + 1].from = composites[i].until
                 /\ \A day \in s..(e - 1) : Cardinality(WindowsOf(day)) = 1
                 /\ \A i, j \in 1..n :
                        i < j => composites[i].until <= composites[j].from
                 /\ composites[n].until >= e
                 /\ composites[n].until - e <= d - 1
                 /\ composites[n].until = e <=> (e - s) % d = 0

\* several windows were built, the last reaching beyond the end date
C16_Witness ==
    /\ WindowsBuilt
    /\ config.START_DATE < config.END_DATE
    /\ Len(composites) >= 3
    /\ (config.END_DATE - config.START_DATE) % config.COMPOSITE_INTERVAL_DAYS /= 0
    /\ composites[Len(composites)].until > config.END_DATE

\* no window was built for an end date that is not after the start
C16_WitnessEmpty == WindowsBuilt /\ config.START_DATE >= config.END_DATE

====
